---- MODULE Spec2Model ----
(***************************************************************************)
(* Model of modfin/eal (Extended Access Logging): the stack-capture        *)
(* wrapper (Trace / ErrorStackTrace), the inhibit set, the registry of     *)
(* error log functions and the chain walk of UnwrapError.                  *)
(*                                                                         *)
(* An error value is a sequence of nodes, head first; errors.Unwrap is     *)
(* Tail.  The nil interface is the empty sequence.  A non-nil interface    *)
(* holding a nil pointer is a one-node sequence whose node has nilp set.   *)
(***************************************************************************)
EXTENDS Naturals, Sequences, FiniteSets, TLC

\* ------------------------------------------------------------------ bounds
\* Longest error chain the application builds.
MaxDepth == 3
\* Number of distinct call sites of Trace (debug.Stack() renders the site).
MaxSites == 2
\* Longest variadic list passed to one registration call.
MaxList == 2
\* Number of requests the middleware handles, concurrently.
MaxRequests == 2

\* ------------------------------------------------------------- Go types
WrapErrorT == "*fmt.wrapError"
HTTPErrorT == "*echo.HTTPError"
ErrorStackTraceT == "*eal.ErrorStackTrace"
TestErrT == "eal.testErr"
TestErrPtrT == "*eal.testErr"
SetLogFieldsErrT == "eal.testSetLogFieldsErr"
NonComparableT == "eal.nonComparableError"
NonComparablePtrT == "*eal.nonComparableError"
TestErrorPtrT == "*eal.testError"

\* reflect.Kind() == reflect.Ptr for the dynamic type.
IsPtrType(t) ==
    t \in {WrapErrorT, HTTPErrorT, ErrorStackTraceT, TestErrPtrT,
           NonComparablePtrT, TestErrorPtrT}

\* reflect.Type.Comparable(): every type but the struct holding a slice.
Comparable(t) == t # NonComparableT

\* The type has a SetLogFields(map[string]interface{}) method.
ImplementsSetLogFields(t) == t \in {ErrorStackTraceT, SetLogFieldsErrT}

\* ---------------------------------------------------------- error values
Nil == << >>

MkNode(t, id, aux, nilp) == [id |-> id, aux |-> aux, nilp |-> nilp, typ |-> t]

\* Sentinels, package-level variables holding &testError{msg: ...}: pointers,
\* told apart by id.
Sentinel(i) == << MkNode(TestErrorPtrT, i, 0, FALSE) >>
\* nonComparableError{lines: ...}: a struct value holding a slice.
NonComparableErr == << MkNode(NonComparableT, 0, 0, FALSE) >>
\* (*T)(nil) stored in an error interface.
TypedNil(t) == << MkNode(t, 0, 0, TRUE) >>

\* fmt.Errorf("...: %w", e)
Errorf(e) == << MkNode(WrapErrorT, 0, 0, FALSE) >> \o e
\* testErr{e: e}, a struct value wrapping e (e may be nil).
TestErrOf(e) == << MkNode(TestErrT, 0, 0, FALSE) >> \o e
\* &testErr{e: e}
TestErrPtrOf(e) == << MkNode(TestErrPtrT, 0, 0, FALSE) >> \o e
\* &nonComparableError{lines: ...}
NonComparablePtr == << MkNode(NonComparablePtrT, 0, 0, FALSE) >>
\* testSetLogFieldsErr{e: e}
SetLogFieldsErrOf(e) == << MkNode(SetLogFieldsErrT, 0, 0, FALSE) >> \o e

\* NewHTTPError(err, code, msg): echo.NewHTTPError(code, msg) with Internal = err.
NewHTTPError(e, code) == << MkNode(HTTPErrorT, 0, code, FALSE) >> \o e

StatusOK == 200
StatusBadRequest == 400
StatusInternalServerError == 500

TypeOf(e) == Head(e).typ

\* reflect.ValueOf(err): Kind() == reflect.Ptr && IsNil()
IsNilPtr(e) == e # Nil /\ IsPtrType(TypeOf(e)) /\ Head(e).nilp

\* errors.Unwrap
Unwrap(e) == Tail(e)

\* Whether the runtime can hash the interface value as a map key: a pointer
\* hashes by address, a struct hashes its fields, and hashing a value whose
\* dynamic type is not comparable panics.
RECURSIVE Hashable(_)
Hashable(e) ==
    IF e = Nil THEN TRUE
    ELSE IF IsPtrType(TypeOf(e)) THEN TRUE
    ELSE IF ~Comparable(TypeOf(e)) THEN FALSE
    ELSE Hashable(Tail(e))

\* Keys of the two map[interface{}] tables: a reflect.Type or an error value.
TypeKey(t) == [typ |-> t, kind |-> "type", val |-> Nil]
ValueKey(e) == [typ |-> "", kind |-> "value", val |-> e]

\* errors.As(err, &st) with st *ErrorStackTrace
HasStackTrace(e) == \E i \in 1..Len(e) : e[i].typ = ErrorStackTraceT

\* GetErrorStackTrace: the first ErrorStackTrace of the chain, Nil if none.
GetErrorStackTrace(e) ==
    IF HasStackTrace(e)
    THEN LET i == CHOOSE k \in 1..Len(e) :
                    /\ e[k].typ = ErrorStackTraceT
                    /\ \A j \in 1..(k-1) : e[j].typ # ErrorStackTraceT
         IN SubSeq(e, i, Len(e))
    ELSE Nil

\* errors.As(err, &errMsg) with errMsg *echo.HTTPError
HasHTTPError(e) == \E i \in 1..Len(e) : e[i].typ = HTTPErrorT

\* The value errors.As stores in errMsg: the first HTTPError of the chain.
AsHTTPError(e) ==
    LET i == CHOOSE k \in 1..Len(e) :
                 /\ e[k].typ = HTTPErrorT
                 /\ \A j \in 1..(k-1) : e[j].typ # HTTPErrorT
    IN SubSeq(e, i, Len(e))

\* The loop of GetInnerHTTPError: e is the loop's err, errMsg the HTTPError
\* found so far; each round continues from the Internal of the one found.
RECURSIVE InnerHTTPErrorLoop(_, _)
InnerHTTPErrorLoop(e, errMsg) ==
    IF e = Nil THEN errMsg
    ELSE IF HasHTTPError(e)
         THEN InnerHTTPErrorLoop(Unwrap(AsHTTPError(e)), AsHTTPError(e))
         ELSE errMsg

GetInnerHTTPErrorMutOutermost(e) ==
    IF e # Nil /\ HasHTTPError(e) THEN AsHTTPError(e) ELSE Nil

\* GetInnerHTTPError(err): nil when the chain holds no HTTPError.
GetInnerHTTPError(e) == InnerHTTPErrorLoop(e, Nil)

\* ErrorStackTrace.TypeName(): the type of the wrapped error.
TypeName(st) == TypeOf(Unwrap(st))

\* ------------------------------------------------------- rendered values
\* Field values and messages are sequences of tokens.
StackText(site) == << "stack", ToString(site) >>

\* ErrorStackTrace.Stack(): the stack the node was created with.
Stack(st) == StackText(Head(st).aux)

\* err.Error()
RECURSIVE ErrorMsg(_)
ErrorMsg(e) ==
    LET h == Head(e) IN
    CASE h.typ = TestErrorPtrT -> << "test error", ToString(h.id) >>
      [] h.typ = WrapErrorT -> << "wrapped:" >> \o ErrorMsg(Tail(e))
      [] h.typ = ErrorStackTraceT -> ErrorMsg(Tail(e))
      [] h.typ = HTTPErrorT ->
            IF Len(e) = 1 THEN << "code=", ToString(h.aux) >>
            ELSE << "code=", ToString(h.aux), "internal=" >> \o ErrorMsg(Tail(e))
      [] h.typ \in {TestErrT, TestErrPtrT, SetLogFieldsErrT} -> << "testErr" >>
      [] OTHER -> << "lines" >>

errorMessage == "error_message"
errorStack == "error_stack"
errorType == "error_type"

Put(f, k, v) == [x \in (DOMAIN f) \cup {k} |-> IF x = k THEN v ELSE f[x]]
NoFields == [x \in {} |-> << >>]

\* A record handed to logrus.
LogRecord(level, msg, f) == [level |-> level, msg |-> msg, data |-> f]

\* ------------------------------------------------------------ registration
\* The loop of InhibitStacktraceForError over its variadic list.  A value whose
\* dynamic type cannot be hashed panics at the map assignment; the entries
\* stored before it stay.
RECURSIVE InhibitLoop(_, _)
InhibitLoop(set, list) ==
    IF list = << >> THEN [table |-> set, outcome |-> "ok"]
    ELSE LET errItem == Head(list) IN
         IF IsNilPtr(errItem)
         THEN InhibitLoop(set \cup {TypeKey(TypeOf(errItem))}, Tail(list))
         ELSE IF ~Hashable(errItem)
         THEN [table |-> set, outcome |-> "panic"]
         ELSE InhibitLoop(set \cup {ValueKey(errItem)}, Tail(list))

\* The loop of RegisterErrorLogFunc: the same rule, storing errFmtFunc.
RECURSIVE RegisterLoop(_, _, _)
RegisterLoop(reg, errFmtFunc, list) ==
    IF list = << >> THEN [table |-> reg, outcome |-> "ok"]
    ELSE LET errItem == Head(list) IN
         IF IsNilPtr(errItem)
         THEN RegisterLoop(Put(reg, TypeKey(TypeOf(errItem)), errFmtFunc),
                           errFmtFunc, Tail(list))
         ELSE IF ~Hashable(errItem)
         THEN [table |-> reg, outcome |-> "panic"]
         ELSE RegisterLoop(Put(reg, ValueKey(errItem), errFmtFunc),
                           errFmtFunc, Tail(list))

\* -------------------------------------------------------- errorLogger
httpMessage == "http_message"
httpStatusCode == "http_status"

\* The Message of an HTTPError made without a message: http.StatusText(code).
StatusText(code) == << "StatusText", ToString(code) >>

\* errorLogger, the func InitDefaultErrorLogging registers for *echo.HTTPError.
errorLogger(e, f) ==
    IF TypeOf(e) = HTTPErrorT
    THEN Put(Put(f, httpMessage, StatusText(Head(e).aux)),
             httpStatusCode, << ToString(Head(e).aux) >>)
    ELSE Put(f, "error_logger", << TypeOf(e) >>)

\* ------------------------------------------------------------ UnwrapError
\* A registered ErrLogFunc, told apart by name, writes a field of its own
\* holding the type of the error it was called with; the func "setMessage"
\* writes the reserved key error_message instead.
RunLogFunc(logFunc, e, f) ==
    IF logFunc = "errorLogger" THEN errorLogger(e, f)
    ELSE IF logFunc = "setMessage"
         THEN Put(f, errorMessage, << "set by", TypeOf(e) >>)
         ELSE Put(f, logFunc, << TypeOf(e) >>)

SetLogFieldsMutFreshMap(e, f) ==
    IF TypeOf(e) = ErrorStackTraceT
    THEN Put(NoFields, errorStack, StackText(Head(e).aux))
    ELSE Put(f, "set_log_fields", << "true" >>)

\* The node's own SetLogFields method.
SetLogFields(e, f) ==
    IF TypeOf(e) = ErrorStackTraceT
    THEN Put(f, errorStack, StackText(Head(e).aux))
    ELSE Put(f, "set_log_fields", << "true" >>)

\* The pointer type whose element type is t, where the model has one.
PtrTo(t) ==
    CASE t = TestErrT -> TestErrPtrT
      [] t = NonComparableT -> NonComparablePtrT
      [] OTHER -> t

LookupLogFuncMutElemType(e, reg) ==
    LET t == TypeOf(e) IN
    IF TypeKey(PtrTo(t)) \in DOMAIN reg THEN reg[TypeKey(PtrTo(t))]
    ELSE IF Comparable(t)
         THEN IF ~Hashable(e) THEN "panic"
              ELSE IF ValueKey(e) \in DOMAIN reg THEN reg[ValueKey(e)]
              ELSE "none"
         ELSE "none"

\* The lookup of a node in the registry: its reflect.Type first; when no func
\* is registered for the type and the type is comparable, the value itself,
\* which the runtime must hash.
LookupLogFunc(e, reg) ==
    LET t == TypeOf(e) IN
    IF TypeKey(t) \in DOMAIN reg THEN reg[TypeKey(t)]
    ELSE IF Comparable(t)
         THEN IF ~Hashable(e) THEN "panic"
              ELSE IF ValueKey(e) \in DOMAIN reg THEN reg[ValueKey(e)]
              ELSE "none"
         ELSE "none"

NodeContributorMutRegistryFirst(e, reg) ==
    IF LookupLogFunc(e, reg) \notin {"none", "panic"} THEN LookupLogFunc(e, reg)
    ELSE IF ImplementsSetLogFields(TypeOf(e)) THEN "SetLogFields"
    ELSE LookupLogFunc(e, reg)

\* What one iteration of the loop invokes for the node at the head of e.
NodeContributor(e, reg) ==
    IF ImplementsSetLogFields(TypeOf(e)) THEN "SetLogFields"
    ELSE LookupLogFunc(e, reg)

ContributeMutKeepFirst(by, e, f) ==
    LET g == IF by = "SetLogFields" THEN SetLogFields(e, NoFields)
             ELSE IF by = "none" THEN NoFields
             ELSE RunLogFunc(by, e, NoFields) IN
    [k \in (DOMAIN f) \cup (DOMAIN g) |-> IF k \in DOMAIN f THEN f[k] ELSE g[k]]

\* The contributor's writes into the map of the walk.
Contribute(by, e, f) ==
    IF by = "SetLogFields" THEN SetLogFields(e, f)
    ELSE IF by = "none" THEN f
    ELSE RunLogFunc(by, e, f)

\* The loop `for err != nil`: e is the rest of the chain, pos the position of
\* its head in the chain UnwrapError was called with, cs the visits so far.
RECURSIVE WalkChain(_, _, _, _, _)
WalkChain(e, pos, f, cs, reg) ==
    IF e = Nil THEN [outcome |-> "ok", fields |-> f, calls |-> cs]
    ELSE LET by == NodeContributor(e, reg) IN
         IF by = "panic" THEN [outcome |-> "panic", fields |-> f, calls |-> cs]
         ELSE WalkChain(Unwrap(e), pos + 1, Contribute(by, e, f),
                        Append(cs, [by |-> by, pos |-> pos]), reg)

UnwrapErrorMutRootMessage(e, f, reg) ==
    IF e = Nil THEN [outcome |-> "ok", fields |-> f, calls |-> << >>]
    ELSE WalkChain(e, 1, Put(f, errorMessage, ErrorMsg(<< e[Len(e)] >>)), << >>, reg)

\* UnwrapError(err, fields)
UnwrapError(e, f, reg) ==
    IF e = Nil THEN [outcome |-> "ok", fields |-> f, calls |-> << >>]
    ELSE WalkChain(e, 1, Put(f, errorMessage, ErrorMsg(e)), << >>, reg)

WithErrorMutHeadType(e, f, reg) ==
    IF e = Nil THEN [outcome |-> "ok", fields |-> f, calls |-> << >>]
    ELSE UnwrapError(e, Put(f, errorType, << TypeOf(e) >>), reg)

\* Entry.WithError(err) on an entry whose Data is f.
WithError(e, f, reg) ==
    IF e = Nil THEN [outcome |-> "ok", fields |-> f, calls |-> << >>]
    ELSE LET innerErr == << e[Len(e)] >> IN
         UnwrapError(e, Put(f, errorType, << TypeOf(innerErr) >>), reg)

\* ---------------------------------------------------------------- context
Requests == 1..MaxRequests

\* Dynamic types of the value stored in the echo context under contextName.
FieldsT == "eal.Fields"
MapT == "map[string]interface {}"

\* What c.Get(contextName) returns: a typed field map, or nil when unset.
ContextValue(t, f) == [typ |-> t, f |-> f]
NoContextValue == ContextValue("nil", NoFields)

\* The echo.Context argument of WithCtx: nil, or the context of a request.
NilContext == [val |-> NoContextValue, c |-> "nil"]
ContextOf(v) == [val |-> v, c |-> "context"]

\* ------------------------------------------------------------------ Entry
\* strings.HasPrefix(k, "_"), on the keys the field maps of the model use.
HasUnderscorePrefix(k) == k \in {"_msg", "_debug"}

WithFieldsMutCopyAll(data, f) ==
    [k \in (DOMAIN data) \cup (DOMAIN f) |-> IF k \in DOMAIN f THEN f[k] ELSE data[k]]

\* Entry.WithFields(f) on an entry whose Data is data.
WithFields(data, f) ==
    LET copied == {k \in DOMAIN f : ~HasUnderscorePrefix(k)} IN
    [k \in (DOMAIN data) \cup copied |-> IF k \in copied THEN f[k] ELSE data[k]]

\* Entry.WithCtx(c): the assertion contextLogFields.(map[string]interface{})
\* holds only for a value whose dynamic type is that very map type.
WithCtx(data, c) ==
    IF c.c = "nil" THEN data
    ELSE IF c.val.typ = "nil" THEN data
    ELSE IF c.val.typ # MapT THEN data
    ELSE WithFields(data, c.val.f)

\* ------------------------------------------------------------------ Trace
Return(e) == [outcome |-> "ok", ret |-> e, emitted |-> << >>]
Panic == [outcome |-> "panic", ret |-> Nil, emitted |-> << >>]

IsInhibitedMutNever(e, inhibit) == FALSE

IsInhibitedMutChain(e, inhibit) ==
    \E i \in 1..Len(e) :
        \/ ValueKey(SubSeq(e, i, Len(e))) \in inhibit
        \/ TypeKey(e[i].typ) \in inhibit

\* The two lookups in the inhibit map: the error value, then its type.
IsInhibited(e, inhibit) ==
    \/ ValueKey(e) \in inhibit
    \/ TypeKey(TypeOf(e)) \in inhibit

\* The edge case of a non-nil interface holding a nil pointer: one error-level
\* record with the stack of this call, and nil is returned.
TraceNilPointer(e, at) ==
    [outcome |-> "ok", ret |-> Nil,
     emitted |-> << LogRecord("error", "NON NIL INTERFACE TYPE DETECTED",
                              Put(NoFields, errorStack, StackText(at))) >>]

TraceCaptureMutNoDirectLog(e, directly, at) ==
    [outcome |-> "ok",
     ret |-> << MkNode(ErrorStackTraceT, 0, at, FALSE) >> \o e,
     emitted |-> << >>]

\* A new ErrorStackTrace{err, stack}, logged at once under LogCallStackDirectly.
TraceCapture(e, directly, at) ==
    LET trace == StackText(at) IN
    [outcome |-> "ok",
     ret |-> << MkNode(ErrorStackTraceT, 0, at, FALSE) >> \o e,
     emitted |-> IF directly
                 THEN << LogRecord("error", "ERROR",
                            Put(Put(NoFields, errorMessage, ErrorMsg(e)),
                                errorStack, trace)) >>
                 ELSE << >>]

TraceMutNoNilCheck(e, inhibit, directly, at) ==
    IF e # Nil /\ IsNilPtr(e) THEN TraceNilPointer(e, at)
    ELSE IF ~Hashable(e) THEN Panic
    ELSE IF e # Nil /\ IsInhibited(e, inhibit) THEN Return(e)
    ELSE IF HasStackTrace(e) THEN Return(e)
    ELSE [outcome |-> "ok",
          ret |-> << MkNode(ErrorStackTraceT, 0, at, FALSE) >> \o e,
          emitted |-> << >>]

TraceMutInhibitFirst(e, inhibit, directly, at) ==
    IF e = Nil THEN Return(Nil)
    ELSE IF ~Hashable(e) THEN Panic
    ELSE IF IsInhibited(e, inhibit) THEN Return(e)
    ELSE IF IsNilPtr(e) THEN TraceNilPointer(e, at)
    ELSE IF HasStackTrace(e) THEN Return(e)
    ELSE TraceCapture(e, directly, at)

TraceMutNoAsCheck(e, inhibit, directly, at) ==
    IF e = Nil THEN Return(Nil)
    ELSE IF IsNilPtr(e) THEN TraceNilPointer(e, at)
    ELSE IF ~Hashable(e) THEN Panic
    ELSE IF IsInhibited(e, inhibit) THEN Return(e)
    ELSE TraceCapture(e, directly, at)

\* Trace(err), called at call site `at`.  The lookup of err in the inhibit map
\* hashes it, which panics for a value the runtime cannot hash.
Trace(e, inhibit, directly, at) ==
    IF e = Nil THEN Return(Nil)
    ELSE IF IsNilPtr(e) THEN TraceNilPointer(e, at)
    ELSE IF ~Hashable(e) THEN Panic
    ELSE IF IsInhibited(e, inhibit) THEN Return(e)
    ELSE IF HasStackTrace(e) THEN Return(e)
    ELSE TraceCapture(e, directly, at)

\* ------------------------------------------------------------- middleware
\* uuid.NewV4().String(): an identifier no other request is given.
NewV4(r) == << "uuid", ToString(r) >>

DefaultContextLogFuncMutNoHeaders(hdr, res, fresh, f) ==
    LET id == IF hdr = << >> THEN fresh ELSE hdr IN
    [fields |-> Put(f, "request_id", id), reqHeader |-> hdr, resHeader |-> res]

\* DefaultContextLogFunc on a request whose X-Request-Id header is hdr and
\* whose response header is res: the headers and the field map it leaves.
DefaultContextLogFunc(hdr, res, fresh, f) ==
    LET id == IF hdr = << >> THEN fresh ELSE hdr IN
    [fields |-> Put(Put(Put(Put(Put(Put(f,
                    "request_id", id),
                    "remote_addr", << "remote" >>),
                    "host", << "host" >>),
                    "method", << "GET" >>),
                    "uri", << "/droids?x=1" >>),
                    "router_path", << "/droids" >>),
     reqHeader |-> id,
     resHeader |-> IF hdr = << >> THEN fresh ELSE res]

AddContextFieldsMutCopy(v, f) == v

\* AddContextFields(c, fields) on the value the context holds.
AddContextFields(v, f) ==
    IF v.typ # FieldsT THEN v
    ELSE ContextValue(FieldsT,
            [k \in (DOMAIN v.f) \cup (DOMAIN f) |->
                IF k \in DOMAIN f THEN f[k] ELSE v.f[k]])

\* &echo.HTTPError{Code: 500, Message: StatusText(500), Internal: err}
InternalServerError(e) ==
    << MkNode(HTTPErrorT, 0, StatusInternalServerError, FALSE) >> \o e

ReportedErrorMutUnmodified(e) ==
    IF GetInnerHTTPError(e) # Nil THEN GetInnerHTTPError(e) ELSE e

\* The error handed to c.Error for the non-nil error the handler returned.
ReportedError(e) ==
    IF GetInnerHTTPError(e) # Nil THEN GetInnerHTTPError(e)
    ELSE InternalServerError(e)

\* The middleware's err after the error handling: reassigned only when the
\* chain holds no HTTPError.
LoggedError(e) ==
    IF e = Nil THEN Nil
    ELSE IF GetInnerHTTPError(e) # Nil THEN e
    ELSE InternalServerError(e)

\* c.Response().Status: what the handler wrote, or the code echo's error
\* handler answers with for the reported error.
ResponseStatus(e) ==
    IF e = Nil THEN << ToString(StatusOK) >>
    ELSE << ToString(Head(ReportedError(e)).aux) >>

MiddlewareLogMutOnlyErrors(logFields, e, reg) ==
    IF e = Nil THEN [outcome |-> "ok", records |-> << >>]
    ELSE [outcome |-> "ok",
          records |-> << LogRecord("error", << "access" >>,
                            WithError(e, WithFields(NoFields, logFields), reg).fields) >>]

\* The part "Create log entry" of the middleware: the records it writes, none
\* when the walk of WithError panics.
MiddlewareLog(logFields, e, reg) ==
    LET data == WithFields(NoFields, logFields)
        w == WithError(e, data, reg)
        msg == IF "_msg" \in DOMAIN logFields THEN logFields["_msg"]
               ELSE << "access" >>
        level == IF errorMessage \in DOMAIN w.fields THEN "error" ELSE "info"
    IN IF w.outcome = "panic" THEN [outcome |-> "panic", records |-> << >>]
       ELSE [outcome |-> "ok", records |-> << LogRecord(level, msg, w.fields) >>]

\* The middleware from the return of next(c) on, for the error e returned.
AfterNext(logFields, e, reg) ==
    LET fs == Put(Put(logFields, "latency_ms", << "latency" >>),
                  "status", ResponseStatus(e))
        l == MiddlewareLog(fs, LoggedError(e), reg)
    IN [outcome |-> l.outcome,
        logFields |-> fs,
        records |-> l.records,
        reported |-> IF e = Nil THEN << >> ELSE << ReportedError(e) >>]

\* ------------------------------------------------- the loops, step by step
\* A call of one of the three functions that follow the chain: the chain it
\* was called with, its loop variable e (err in UnwrapError and
\* GetInnerHTTPError, innerErr in WithError), the HTTPError found so far, the
\* number of times the loop body ran, and whether the loop is still running.
Loops == {"UnwrapError", "WithError", "GetInnerHTTPError"}

NoLoop == [e |-> Nil, kind |-> "none", errMsg |-> Nil, outcome |-> "ok",
           start |-> Nil, rounds |-> 0, active |-> FALSE]

\* The loop conditions: `err != nil`, and `errors.Unwrap(innerErr) != nil`.
LoopCondition(kind, e) ==
    IF kind = "WithError" THEN e # Nil /\ Unwrap(e) # Nil ELSE e # Nil

\* The function is entered with the chain e, up to the first test of the
\* loop condition.
EnterLoop(kind, e) ==
    [e |-> e, kind |-> kind, errMsg |-> Nil, outcome |-> "ok", start |-> e,
     rounds |-> 0, active |-> LoopCondition(kind, e)]

InnerHTTPErrorNextMutNoDescent(e) ==
    IF HasHTTPError(e) THEN AsHTTPError(e) ELSE Nil

\* One body of the loop of GetInnerHTTPError: err = errMsg.Internal when
\* errors.As found an HTTPError, err = nil when it did not.
InnerHTTPErrorNext(e) ==
    IF HasHTTPError(e) THEN Unwrap(AsHTTPError(e)) ELSE Nil

\* One body of the running loop l, and the test of its condition after it.
\* The body of UnwrapError panics in the lookup of a value that the runtime
\* cannot hash.
LoopBody(l, reg) ==
    LET next == CASE l.kind = "GetInnerHTTPError" -> InnerHTTPErrorNext(l.e)
                  [] OTHER -> Unwrap(l.e)
        found == IF l.kind = "GetInnerHTTPError" /\ HasHTTPError(l.e)
                 THEN AsHTTPError(l.e) ELSE l.errMsg
    IN IF l.kind = "UnwrapError" /\ NodeContributor(l.e, reg) = "panic"
       THEN [l EXCEPT !.rounds = @ + 1, !.active = FALSE, !.outcome = "panic"]
       ELSE [l EXCEPT !.e = next, !.errMsg = found, !.rounds = @ + 1,
                      !.active = LoopCondition(l.kind, next)]

\* ------------------------------------------------------------------ state
VARIABLES
    registeredErrorLogFunctions, \* map[interface{}]ErrLogFunc
    inhibitStacktraceForError,   \* map[interface{}]struct{}, as its key set
    LogCallStackDirectly,        \* the package flag
    err,                         \* the caller's error variable
    op,                          \* the last call
    arg,                         \* its error argument
    errList,                     \* its variadic list (registration calls)
    site,                        \* the call site of the last Trace
    outcome,                     \* "ok", or "panic" when the call panicked
    emitted,                     \* the log records the last call wrote
    fieldsIn,                    \* the field map handed to the last call
    fields,                      \* that map after the call
    calls,                       \* the contributors the last walk invoked
    inner,                       \* what the last GetInnerHTTPError returned
    ctxArg,                      \* the context handed to the last WithCtx
    pc,                          \* per request: where the middleware stands
    reqHeader,                   \* per request: its X-Request-Id header
    resHeader,                   \* per request: the response's X-Request-Id
    ctx,                         \* per request: c.Get(contextName)
    returned,                    \* per request: what next(c) returned
    reported,                    \* per request: the errors given to c.Error
    records,                     \* per request: the records the middleware wrote
    inbound,                     \* per request: the X-Request-Id it arrived with
    added,                       \* per request: the fields its handler added
    logFunctions,                \* the middleware's captured variadic parameter
    loop                         \* the chain-following loop that is running

vars == << registeredErrorLogFunctions, inhibitStacktraceForError,
           LogCallStackDirectly, err, op, arg, errList, site, outcome, emitted,
           fieldsIn, fields, calls, inner, ctxArg, pc, reqHeader, resHeader,
           ctx, returned, reported, records, inbound, added, logFunctions,
           loop >>

tables == << registeredErrorLogFunctions, inhibitStacktraceForError >>
walkVars == << fieldsIn, fields, calls >>
mwVars == << pc, reqHeader, resHeader, ctx, returned, reported, records, inbound,
            added, logFunctions >>
httpVars == << inner, ctxArg, mwVars >>

Init ==
    /\ registeredErrorLogFunctions = [k \in {} |-> ""]
    /\ inhibitStacktraceForError = {}
    /\ LogCallStackDirectly = FALSE
    /\ err = Nil
    /\ op = "init"
    /\ arg = Nil
    /\ errList = << >>
    /\ site = 0
    /\ outcome = "ok"
    /\ emitted = << >>
    /\ fieldsIn = NoFields
    /\ fields = NoFields
    /\ calls = << >>
    /\ inner = Nil
    /\ ctxArg = NilContext
    /\ pc = [r \in Requests |-> "idle"]
    /\ reqHeader = [r \in Requests |-> << >>]
    /\ resHeader = [r \in Requests |-> << >>]
    /\ ctx = [r \in Requests |-> NoContextValue]
    /\ returned = [r \in Requests |-> Nil]
    /\ reported = [r \in Requests |-> << >>]
    /\ records = [r \in Requests |-> << >>]
    /\ inbound = [r \in Requests |-> << >>]
    /\ added = [r \in Requests |-> NoFields]
    /\ logFunctions = << >>
    /\ loop = NoLoop

\* The tables and the flag are set up when the process starts, before the
\* first error is handled (README, "Setup echo access/error logging").
Startup ==
    op \in {"init", "RegisterErrorLogFunc", "InhibitStacktraceForError", "flag"}

\* Lists of at most MaxList identities drawn from pool.
Lists(pool) == UNION { [1..n -> pool] : n \in 1..MaxList }

\* What a call that walks no chain leaves in the record of the last call.
NoWalk ==
    /\ fieldsIn' = NoFields
    /\ fields' = NoFields
    /\ calls' = << >>

NoCall ==
    /\ arg' = Nil
    /\ errList' = << >>
    /\ site' = 0
    /\ outcome' = "ok"
    /\ emitted' = << >>
    /\ NoWalk

\* The caller's variable is set to a fresh error value.
NewError(pool) ==
    \E e \in pool :
        /\ err' = e
        /\ op' = "new"
        /\ NoCall
        /\ UNCHANGED << loop, httpVars, tables, LogCallStackDirectly >>

Wrapped(e) ==
    /\ err' = e
    /\ op' = "wrap"
    /\ arg' = err
    /\ errList' = << >>
    /\ site' = 0
    /\ outcome' = "ok"
    /\ emitted' = << >>
    /\ NoWalk
    /\ UNCHANGED << loop, httpVars, tables, LogCallStackDirectly >>

\* err = fmt.Errorf("...: %w", err)
WrapErrorf ==
    /\ err # Nil
    /\ ~IsNilPtr(err)
    /\ Len(err) < MaxDepth
    /\ Wrapped(Errorf(err))

\* err = testErr{e: err}
WrapTestErr ==
    /\ ~IsNilPtr(err)
    /\ Len(err) < MaxDepth
    /\ Wrapped(TestErrOf(err))

\* err = &testErr{e: err}
WrapTestErrPtr ==
    /\ ~IsNilPtr(err)
    /\ Len(err) < MaxDepth
    /\ Wrapped(TestErrPtrOf(err))

\* err = testSetLogFieldsErr{e: err}
WrapSetLogFieldsErr ==
    /\ ~IsNilPtr(err)
    /\ Len(err) < MaxDepth
    /\ Wrapped(SetLogFieldsErrOf(err))

\* err = NewHTTPError(err, code, msg)
WrapHTTPError(codes) ==
    /\ ~IsNilPtr(err)
    /\ Len(err) < MaxDepth
    /\ \E code \in codes : Wrapped(NewHTTPError(err, code))

TraceCallMutRemembers ==
    \E s \in 1..MaxSites :
        LET r == Trace(err, inhibitStacktraceForError, LogCallStackDirectly, s) IN
        /\ Len(r.ret) <= MaxDepth
        /\ op' = "Trace"
        /\ arg' = err
        /\ errList' = << >>
        /\ site' = s
        /\ outcome' = r.outcome
        /\ emitted' = r.emitted
        /\ err' = IF r.outcome = "ok" THEN r.ret ELSE err
        /\ NoWalk
        /\ inhibitStacktraceForError' =
              IF r.outcome = "ok" /\ r.ret # Nil /\ r.ret = err
              THEN inhibitStacktraceForError \cup {ValueKey(err)}
              ELSE inhibitStacktraceForError
        /\ UNCHANGED << loop, httpVars, registeredErrorLogFunctions,
                        LogCallStackDirectly >>

\* err = Trace(err)
TraceCall ==
    \E s \in 1..MaxSites :
        LET r == Trace(err, inhibitStacktraceForError, LogCallStackDirectly, s) IN
        /\ Len(r.ret) <= MaxDepth
        /\ op' = "Trace"
        /\ arg' = err
        /\ errList' = << >>
        /\ site' = s
        /\ outcome' = r.outcome
        /\ emitted' = r.emitted
        /\ err' = IF r.outcome = "ok" THEN r.ret ELSE err
        /\ NoWalk
        /\ UNCHANGED << loop, httpVars, tables, LogCallStackDirectly >>

\* InhibitStacktraceForError(list...)
InhibitCall(pool) ==
    \E list \in Lists(pool) :
        LET r == InhibitLoop(inhibitStacktraceForError, list) IN
        /\ Startup
        /\ inhibitStacktraceForError' = r.table
        /\ op' = "InhibitStacktraceForError"
        /\ arg' = Nil
        /\ errList' = list
        /\ site' = 0
        /\ outcome' = r.outcome
        /\ emitted' = << >>
        /\ NoWalk
        /\ UNCHANGED << loop, httpVars, registeredErrorLogFunctions, LogCallStackDirectly, err >>

\* RegisterErrorLogFunc(errFmtFunc, list...)
RegisterCall(funcs, pool) ==
    \E errFmtFunc \in funcs, list \in Lists(pool) :
        LET r == RegisterLoop(registeredErrorLogFunctions, errFmtFunc, list) IN
        /\ Startup
        /\ registeredErrorLogFunctions' = r.table
        /\ op' = "RegisterErrorLogFunc"
        /\ arg' = Nil
        /\ errList' = list
        /\ site' = 0
        /\ outcome' = r.outcome
        /\ emitted' = << >>
        /\ NoWalk
        /\ UNCHANGED << loop, httpVars, inhibitStacktraceForError, LogCallStackDirectly, err >>

\* LogCallStackDirectly = b
SetLogCallStackDirectly ==
    \E b \in BOOLEAN :
        /\ Startup
        /\ b # LogCallStackDirectly
        /\ LogCallStackDirectly' = b
        /\ op' = "flag"
        /\ NoCall
        /\ UNCHANGED << loop, httpVars, tables, err >>

Walked(name, f, r) ==
    /\ op' = name
    /\ arg' = err
    /\ errList' = << >>
    /\ site' = 0
    /\ outcome' = r.outcome
    /\ emitted' = << >>
    /\ fieldsIn' = f
    /\ fields' = r.fields
    /\ calls' = r.calls
    /\ UNCHANGED << loop, httpVars, tables, LogCallStackDirectly, err >>

\* UnwrapError(err, f)
UnwrapErrorCall(maps) ==
    \E f \in maps :
        /\ ~IsNilPtr(err)
        /\ Walked("UnwrapError", f, UnwrapError(err, f, registeredErrorLogFunctions))

\* NewEntry().WithFields(f).WithError(err)
WithErrorCall(maps) ==
    \E f \in maps :
        /\ ~IsNilPtr(err)
        /\ Walked("WithError", f, WithError(err, f, registeredErrorLogFunctions))

\* inner = GetInnerHTTPError(err)
GetInnerHTTPErrorCall ==
    /\ ~IsNilPtr(err)
    /\ inner' = GetInnerHTTPError(err)
    /\ op' = "GetInnerHTTPError"
    /\ arg' = err
    /\ errList' = << >>
    /\ site' = 0
    /\ outcome' = "ok"
    /\ emitted' = << >>
    /\ NoWalk
    /\ UNCHANGED << loop, ctxArg, mwVars, tables, LogCallStackDirectly, err >>

\* What the calls of the middleware leave of the record of the last call.
lastCall == << op, arg, errList, site, outcome, emitted, walkVars, inner, ctxArg >>

\* InitDefaultErrorLogging(), before the first request is served.
InitDefaultErrorLoggingCall ==
    LET r == RegisterLoop(registeredErrorLogFunctions, "errorLogger",
                          << TypedNil(HTTPErrorT) >>) IN
    /\ Startup
    /\ \A q \in Requests : pc[q] = "idle"
    /\ TypeKey(HTTPErrorT) \notin DOMAIN registeredErrorLogFunctions
    /\ registeredErrorLogFunctions' = r.table
    /\ op' = "RegisterErrorLogFunc"
    /\ arg' = Nil
    /\ errList' = << TypedNil(HTTPErrorT) >>
    /\ site' = 0
    /\ outcome' = r.outcome
    /\ emitted' = << >>
    /\ NoWalk
    /\ UNCHANGED << loop, httpVars, inhibitStacktraceForError, LogCallStackDirectly, err >>

\* CreateLoggerMiddleware() is called without log functions: the closure it
\* returns captures the empty variadic parameter, and every request that the
\* middleware serves runs that one closure.
DefaultLogFunctions == << "DefaultContextLogFunc" >>

\* if len(logFunctions) == 0 { logFunctions = ... }, as one request sees it
\* when no other request is between the test and the assignment.
WithDefault(lf) == IF Len(lf) = 0 THEN DefaultLogFunctions ELSE lf

\* logFields := Fields{} and the loop over the log functions, for a request
\* that arrives with the X-Request-Id header hdr; then c.Set and next(c).
RunLogFunctions(r, hdr) ==
    LET d == DefaultContextLogFunc(hdr, resHeader[r], NewV4(r), NoFields) IN
    /\ inbound' = [inbound EXCEPT ![r] = hdr]
    /\ reqHeader' = [reqHeader EXCEPT ![r] = d.reqHeader]
    /\ resHeader' = [resHeader EXCEPT ![r] = d.resHeader]
    /\ ctx' = [ctx EXCEPT ![r] = ContextValue(FieldsT, d.fields)]

\* The middleware up to the call of next(c), for a request that arrives with
\* the X-Request-Id header hdr and is served while no other request is in
\* the middleware: the test, the assignment and the loop in one step.
MiddlewareBegin(r, headers) ==
    \E hdr \in headers :
        /\ pc[r] = "idle"
        /\ logFunctions' = WithDefault(logFunctions)
        /\ RunLogFunctions(r, hdr)
        /\ pc' = [pc EXCEPT ![r] = "next"]
        /\ UNCHANGED << loop, lastCall, tables, LogCallStackDirectly, err,
                        returned, reported, records, added >>

\* What a request can read of logFunctions.  The variable is read and written
\* without synchronisation: while another request is between its test and its
\* assignment the read races with the write of the slice header, and can see
\* the old header, the new one, or a length of one with the old nil pointer.
ObservedLogFunctions(r) ==
    IF Len(logFunctions) # 0 THEN {"set"}
    ELSE IF \E q \in Requests \ {r} : pc[q] = "assign"
         THEN {"empty", "set", "torn"}
         ELSE {"empty"}

\* The test len(logFunctions) == 0 of request r, on its own goroutine.
MiddlewareTest(r) ==
    \E seen \in ObservedLogFunctions(r) :
        /\ pc[r] = "idle"
        /\ pc' = [pc EXCEPT ![r] = CASE seen = "empty" -> "assign"
                                     [] seen = "set" -> "range"
                                     [] seen = "torn" -> "panic"]
        /\ UNCHANGED << loop, lastCall, tables, LogCallStackDirectly, err, reqHeader,
                        resHeader, ctx, returned, reported, records, inbound,
                        added, logFunctions >>

\* The assignment of the default (for a request that saw the empty slice) and
\* the loop over the log functions, up to the call of next(c).
MiddlewareRange(r, headers) ==
    \E hdr \in headers :
        /\ pc[r] \in {"assign", "range"}
        /\ logFunctions' = IF pc[r] = "assign" THEN DefaultLogFunctions
                           ELSE logFunctions
        /\ RunLogFunctions(r, hdr)
        /\ pc' = [pc EXCEPT ![r] = "next"]
        /\ UNCHANGED << loop, lastCall, tables, LogCallStackDirectly, err,
                        returned, reported, records, added >>

\* The handler of request r calls AddContextFields(c, f).
AddContextFieldsCall(r, maps) ==
    \E f \in maps :
        /\ pc[r] = "next"
        /\ ctx' = [ctx EXCEPT ![r] = AddContextFields(ctx[r], f)]
        /\ added' = [added EXCEPT ![r] =
                        [k \in (DOMAIN added[r]) \cup (DOMAIN f) |->
                            IF k \in DOMAIN f THEN f[k] ELSE added[r][k]]]
        /\ UNCHANGED << loop, lastCall, tables, LogCallStackDirectly, err, pc, reqHeader,
                        resHeader, returned, reported, records, inbound,
                        logFunctions >>

\* next(c) returns e and the middleware runs to its end, or panics in the
\* walk of the error.
MiddlewareEnd(r, errors) ==
    \E e \in errors :
        LET a == AfterNext(ctx[r].f, e, registeredErrorLogFunctions) IN
        /\ pc[r] = "next"
        /\ returned' = [returned EXCEPT ![r] = e]
        /\ reported' = [reported EXCEPT ![r] = a.reported]
        /\ ctx' = [ctx EXCEPT ![r] = ContextValue(FieldsT, a.logFields)]
        /\ records' = [records EXCEPT ![r] = records[r] \o a.records]
        /\ pc' = [pc EXCEPT ![r] = IF a.outcome = "ok" THEN "done" ELSE "panic"]
        /\ UNCHANGED << loop, lastCall, tables, LogCallStackDirectly, err, reqHeader,
                        resHeader, inbound, added, logFunctions >>

\* NewEntry().WithFields(data).WithCtx(c), with c nil or the context of r.
WithCtxCall(r, maps) ==
    \E data \in maps, c \in {NilContext, ContextOf(ctx[r])} :
        /\ op' = "WithCtx"
        /\ ctxArg' = c
        /\ fieldsIn' = data
        /\ fields' = WithCtx(data, c)
        /\ calls' = << >>
        /\ arg' = Nil
        /\ errList' = << >>
        /\ site' = 0
        /\ outcome' = "ok"
        /\ emitted' = << >>
        /\ UNCHANGED << loop, inner, mwVars, tables, LogCallStackDirectly, err >>

\* NewEntry().WithFields(f)
WithFieldsCall(maps) ==
    \E f \in maps :
        /\ op' = "WithFields"
        /\ fieldsIn' = f
        /\ fields' = WithFields(NoFields, f)
        /\ calls' = << >>
        /\ arg' = Nil
        /\ errList' = << >>
        /\ site' = 0
        /\ outcome' = "ok"
        /\ emitted' = << >>
        /\ UNCHANGED << loop, httpVars, tables, LogCallStackDirectly, err >>

\* A call of UnwrapError(err, f), WithError(err) or GetInnerHTTPError(err)
\* begins; the caller waits for it to return.
LoopStart(kinds) ==
    \E kind \in kinds :
        /\ ~loop.active
        /\ ~IsNilPtr(err)
        /\ loop' = EnterLoop(kind, err)
        /\ UNCHANGED << lastCall, mwVars, tables, LogCallStackDirectly, err >>

\* The running loop executes its body once.
LoopStep ==
    /\ loop.active
    /\ loop.rounds <= MaxDepth
    /\ loop' = LoopBody(loop, registeredErrorLogFunctions)
    /\ UNCHANGED << lastCall, mwVars, tables, LogCallStackDirectly, err >>

\* ------------------------------------------------- the stack-capture runs
TraceErrors == {Nil, Sentinel(1), Sentinel(2), NonComparableErr,
                TypedNil(TestErrorPtrT)}
TraceInhibitable == {Sentinel(1), TypedNil(TestErrorPtrT), TypedNil(HTTPErrorT),
                     NonComparableErr}
\* The field maps handed to a walk: an empty one and one that holds a field.
FieldMaps == {NoFields, Put(NoFields, "request_id", << "r1" >>)}

NextTrace ==
    \/ NewError(TraceErrors)
    \/ WrapErrorf
    \/ WrapTestErr
    \/ WrapHTTPError({StatusInternalServerError})
    \/ TraceCall
    \/ InhibitCall(TraceInhibitable)
    \/ SetLogCallStackDirectly
    \/ UnwrapErrorCall(FieldMaps)
    \/ WithErrorCall(FieldMaps)

SpecTrace == Init /\ [][NextTrace]_vars

\* ------------------------------------------------------- the logging runs
WalkErrors == {Nil, Sentinel(1), Sentinel(2), NonComparableErr}
WalkRegistrable == {Sentinel(1), TypedNil(TestErrorPtrT), TypedNil(ErrorStackTraceT),
                    SetLogFieldsErrOf(Nil), NonComparableErr}
LogFuncs == {"h1", "h2"}

NextWalk ==
    \/ RegisterCall(LogFuncs, WalkRegistrable)
    \/ NewError(WalkErrors)
    \/ WrapErrorf
    \/ WrapTestErr
    \/ WrapSetLogFieldsErr
    \/ TraceCall
    \/ UnwrapErrorCall(FieldMaps)
    \/ WithErrorCall(FieldMaps)

SpecWalk == Init /\ [][NextWalk]_vars

\* ------------------------------------------------- the runs of the merge
\* Chains whose nodes write the same keys: the same func registered for two
\* types, two HTTP errors, and a func that writes error_message; the map
\* handed to the walk holds these keys already.
MergeErrors == {Nil, Sentinel(1)}
MergeRegistrable == {Sentinel(1), TypedNil(TestErrPtrT)}
MergeFuncs == {"h1", "setMessage"}
MergeMaps == {NoFields,
              Put(Put(NoFields, "h1", << "older" >>), errorMessage, << "older" >>)}

NextMerge ==
    \/ RegisterCall(MergeFuncs, MergeRegistrable)
    \/ InitDefaultErrorLoggingCall
    \/ NewError(MergeErrors)
    \/ WrapTestErrPtr
    \/ WrapHTTPError({StatusBadRequest, StatusInternalServerError})
    \/ UnwrapErrorCall(MergeMaps)

SpecMerge == Init /\ [][NextMerge]_vars

\* ------------------------------------------------- the runs of the loops
\* The caller builds a chain and calls one of the three functions; it goes on
\* when the function has returned.  The goroutine that runs a loop keeps
\* running: a loop body that can run does run.
LoopErrors == {Nil, Sentinel(1), NonComparableErr}

NextLoop ==
    \/ ~loop.active /\ NewError(LoopErrors)
    \/ ~loop.active /\ WrapErrorf
    \/ ~loop.active /\ WrapTestErr
    \/ ~loop.active /\ WrapHTTPError({StatusBadRequest})
    \/ LoopStart(Loops)
    \/ LoopStep

SpecLoop == Init /\ [][NextLoop]_vars /\ WF_vars(LoopStep)

\* ------------------------------------------------- the runs of a process
\* Registration at startup, then every operation of the package and one
\* request through the middleware.
FrameErrors == {Nil, Sentinel(1)}
FrameRegistrable == {Sentinel(1), TypedNil(ErrorStackTraceT)}

NextFrame ==
    \/ RegisterCall({"h1"}, FrameRegistrable)
    \/ InhibitCall(FrameRegistrable)
    \/ InitDefaultErrorLoggingCall
    \/ NewError(FrameErrors)
    \/ WrapHTTPError({StatusBadRequest})
    \/ TraceCall
    \/ UnwrapErrorCall({NoFields})
    \/ WithErrorCall({NoFields})
    \/ GetInnerHTTPErrorCall
    \/ MiddlewareBegin(1, {<< >>})
    \/ MiddlewareEnd(1, FrameErrors)

SpecFrame == Init /\ [][NextFrame]_vars

\* ------------------------------------------- the runs of type-marker lookup
MatchErrors == {Nil, Sentinel(1), NonComparableErr, NonComparablePtr}
MatchRegistrable == {TypedNil(TestErrPtrT), TypedNil(NonComparablePtrT),
                     TypedNil(ErrorStackTraceT), TestErrOf(Nil)}

NextMatch ==
    \/ RegisterCall(LogFuncs, MatchRegistrable)
    \/ NewError(MatchErrors)
    \/ WrapTestErr
    \/ WrapTestErrPtr
    \/ TraceCall
    \/ UnwrapErrorCall(FieldMaps)

SpecMatch == Init /\ [][NextMatch]_vars

\* ------------------------------------------------- the HTTP-error lookups
HTTPErrors == {Nil, Sentinel(1)}

NextHTTP ==
    \/ NewError(HTTPErrors)
    \/ WrapErrorf
    \/ WrapHTTPError({StatusBadRequest, StatusInternalServerError})
    \/ TraceCall
    \/ GetInnerHTTPErrorCall

SpecHTTP == Init /\ [][NextHTTP]_vars

\* ------------------------------------------------------------ the requests
\* The X-Request-Id a request arrives with: none, or one the client chose.
InboundHeaders == {<< >>, << "client-id" >>}

\* The field maps the handler of request r adds to its context.
AddMaps(r) ==
    {Put(Put(NoFields, "user-id", << "user", ToString(r) >>),
         "_msg", << "msg", ToString(r) >>),
     Put(Put(NoFields, "status", << "teapot", ToString(r) >>),
         errorMessage, << "mine", ToString(r) >>)}

\* The errors a handler returns: none, a sentinel, a traced sentinel, an
\* HTTPError, an HTTPError around a traced HTTPError, and a struct value
\* around a value that cannot be hashed.
HandlerErrors ==
    {Nil,
     Sentinel(1),
     TraceCapture(Sentinel(1), FALSE, 1).ret,
     NewHTTPError(Nil, StatusBadRequest),
     NewHTTPError(TraceCapture(NewHTTPError(Nil, StatusBadRequest), FALSE, 1).ret,
                  StatusInternalServerError),
     TestErrOf(NonComparableErr)}

\* The requests run side by side on their goroutines: the test of the
\* captured logFunctions and the assignment to it are separate steps.
NextRequest ==
    \/ InitDefaultErrorLoggingCall
    \/ \E r \in Requests :
          \/ MiddlewareTest(r)
          \/ MiddlewareRange(r, InboundHeaders)
          \/ AddContextFieldsCall(r, AddMaps(r))
          \/ MiddlewareEnd(r, HandlerErrors)

SpecRequest == Init /\ [][NextRequest]_vars

\* The requests of one middleware on their goroutines, the test of the
\* captured logFunctions and the assignment to it as separate steps.
RaceErrors == {Nil, Sentinel(1)}

NextRace ==
    \E r \in Requests :
        \/ MiddlewareTest(r)
        \/ MiddlewareRange(r, InboundHeaders)
        \/ AddContextFieldsCall(r, AddMaps(r))
        \/ MiddlewareEnd(r, RaceErrors)

SpecRace == Init /\ [][NextRace]_vars

\* The field maps handed to WithFields, one with a key of the "_" prefix.
EntryMaps == {NoFields,
              Put(Put(NoFields, "time", << "12ms" >>), "_debug", << "on" >>)}

NextCtx ==
    \/ MiddlewareBegin(1, InboundHeaders)
    \/ AddContextFieldsCall(1, AddMaps(1))
    \/ MiddlewareEnd(1, HandlerErrors)
    \/ WithCtxCall(1, EntryMaps)
    \/ WithFieldsCall(EntryMaps \cup AddMaps(1))

SpecCtx == Init /\ [][NextCtx]_vars

\* ================================================================ claims
\* The inhibit map holds the value of e or the type of e.
InInhibitMap(e) ==
    \/ ValueKey(e) \in inhibitStacktraceForError
    \/ TypeKey(TypeOf(e)) \in inhibitStacktraceForError

\* Some node below the head of e has its value or its type in the inhibit map.
WrapsInhibited(e) ==
    \E i \in 2..Len(e) : InInhibitMap(SubSeq(e, i, Len(e)))

\* The rest of the chain `a` from position i on: the error the walk holds there.
NodeAt(a, i) == SubSeq(a, i, Len(a))

WalkDone == op \in {"UnwrapError", "WithError"}

\* C1: Trace is idempotent.  For every non-nil error x that is not in the
\* inhibit map, Trace(x) returns, Trace of its result returns that very result
\* at every call site, and the stack of the result is the one of the first
\* call.
C1_TraceIdempotent ==
    (op = "Trace" /\ arg # Nil /\ ~InInhibitMap(arg)) =>
        /\ outcome = "ok"
        /\ \A s \in 1..MaxSites :
             LET again == Trace(err, inhibitStacktraceForError,
                                LogCallStackDirectly, s) IN
             /\ again.outcome = "ok"
             /\ again.ret = err
             /\ GetErrorStackTrace(again.ret) = GetErrorStackTrace(err)
        /\ (~IsNilPtr(arg) /\ ~HasStackTrace(arg)) =>
             GetErrorStackTrace(err) = << MkNode(ErrorStackTraceT, 0, site, FALSE) >> \o arg

\* C2 as stated: an error whose value or whose type is in the inhibit map is
\* returned by Trace as it is.
C2_InhibitedReturnedAsIs ==
    (op = "Trace" /\ arg # Nil /\ InInhibitMap(arg)) =>
        (outcome = "ok" /\ err = arg)

\* C2 as amended: an error whose value or whose type is in the inhibit map,
\* and whose dynamic value is not a nil pointer, is returned by Trace as it is,
\* with the same dynamic type and no ErrorStackTrace added.
C2_InhibitedNonNilPointerReturnedAsIs ==
    (op = "Trace" /\ arg # Nil /\ ~IsNilPtr(arg) /\ InInhibitMap(arg)) =>
        (outcome = "ok" /\ err = arg)

\* A Trace of an error without a stack whose type was inhibited through a
\* typed-nil marker returned it as it is.
C2_Witness ==
    /\ op = "Trace"
    /\ arg # Nil
    /\ ~IsNilPtr(arg)
    /\ ~HasStackTrace(arg)
    /\ TypeKey(TypeOf(arg)) \in inhibitStacktraceForError
    /\ ValueKey(arg) \notin inhibitStacktraceForError
    /\ err = arg

\* C3 as stated: Trace of a chain that wraps an inhibited error below its head
\* returns its argument and adds no ErrorStackTrace.
C3_NoStackAboveInhibited ==
    (op = "Trace" /\ WrapsInhibited(arg)) =>
        (outcome = "ok" /\ err = arg)

\* C3 as amended: inhibition is decided on the head alone.  Trace of a chain
\* that wraps an inhibited error below its head returns its argument exactly
\* when the head itself is in the inhibit map or the chain already holds an
\* ErrorStackTrace; otherwise it returns a new ErrorStackTrace around it.
C3_InhibitionIsByHead ==
    (op = "Trace" /\ WrapsInhibited(arg)) =>
        /\ outcome = "ok"
        /\ IF InInhibitMap(arg) \/ HasStackTrace(arg)
           THEN err = arg
           ELSE err = << MkNode(ErrorStackTraceT, 0, site, FALSE) >> \o arg

\* Trace wrapped a chain whose head is not inhibited although an error below
\* the head is.
C3_Witness ==
    /\ op = "Trace"
    /\ WrapsInhibited(arg)
    /\ ~InInhibitMap(arg)
    /\ ~HasStackTrace(arg)
    /\ outcome = "ok"
    /\ Len(err) = Len(arg) + 1
    /\ TypeOf(err) = ErrorStackTraceT

\* C4: nil is a no-op.  Trace(nil) returns nil and writes no log record;
\* UnwrapError(nil, fields) and Entry.WithError(nil) leave the field map as it
\* was and invoke nothing.
C4_NilIsNoOp ==
    /\ (op = "Trace" /\ arg = Nil) =>
          (outcome = "ok" /\ err = Nil /\ emitted = << >>)
    /\ (WalkDone /\ arg = Nil) =>
          (outcome = "ok" /\ fields = fieldsIn /\ calls = << >>)

\* UnwrapError(nil, fields) was called with a map that holds a field, and the
\* map holds that field and no message afterwards.
C4_Witness ==
    /\ op = "UnwrapError"
    /\ arg = Nil
    /\ fieldsIn # NoFields
    /\ fields = fieldsIn
    /\ errorMessage \notin DOMAIN fields

\* C5: Trace of a non-nil interface holding a nil pointer returns nil and
\* writes exactly one error-level record whose error_stack is the stack of
\* this call, whatever the inhibit map and LogCallStackDirectly hold.
C5_NilPointerDiagnosed ==
    (op = "Trace" /\ IsNilPtr(arg)) =>
        /\ outcome = "ok"
        /\ err = Nil
        /\ Len(emitted) = 1
        /\ emitted[1].level = "error"
        /\ emitted[1].data = Put(NoFields, errorStack, StackText(site))

\* Trace was called with a nil pointer whose type is inhibited while
\* LogCallStackDirectly is set, and wrote its one record.
C5_Witness ==
    /\ op = "Trace"
    /\ IsNilPtr(arg)
    /\ TypeKey(TypeOf(arg)) \in inhibitStacktraceForError
    /\ LogCallStackDirectly
    /\ err = Nil
    /\ Len(emitted) = 1

\* C6: a node that implements SetLogFields is handled by its SetLogFields
\* alone: no registered func is invoked for it, whatever the registry holds
\* for its value or its type.
C6_SetLogFieldsOnly ==
    WalkDone =>
        \A i \in 1..Len(calls) :
            ImplementsSetLogFields(arg[calls[i].pos].typ) =>
                calls[i].by = "SetLogFields"

\* The walk met a node that implements SetLogFields and has a func registered
\* for its value or its type, and invoked its SetLogFields.
C6_Witness ==
    /\ WalkDone
    /\ \E i \in 1..Len(calls) :
          LET n == NodeAt(arg, calls[i].pos) IN
          /\ ImplementsSetLogFields(TypeOf(n))
          /\ \/ TypeKey(TypeOf(n)) \in DOMAIN registeredErrorLogFunctions
             \/ ValueKey(n) \in DOMAIN registeredErrorLogFunctions
          /\ calls[i].by = "SetLogFields"

\* C7: after UnwrapError of a non-nil chain, error_message is the rendered
\* message of the head of the chain, not that of its root cause.
C7_MessageOfHead ==
    (WalkDone /\ arg # Nil) =>
        /\ errorMessage \in DOMAIN fields
        /\ fields[errorMessage] = ErrorMsg(arg)

\* A sentinel was wrapped by Trace and then by fmt.Errorf; the message field
\* is the message of the outermost wrapper, which is not the sentinel's.
C7_Witness ==
    /\ op = "UnwrapError"
    /\ Len(arg) = 3
    /\ arg[1].typ = WrapErrorT
    /\ arg[2].typ = ErrorStackTraceT
    /\ arg[3].typ = TestErrorPtrT
    /\ fields[errorMessage] = << "wrapped:", "test error", "1" >>
    /\ fields[errorMessage] # ErrorMsg(NodeAt(arg, 3))

\* C8: UnwrapError visits every node of the chain once, in order from the
\* head to the root, whatever was invoked on the way.
C8_EveryNodeVisitedOnce ==
    WalkDone =>
        /\ outcome = "ok"
        /\ Len(calls) = Len(arg)
        /\ \A i \in 1..Len(calls) : calls[i].pos = i

\* C9: when a func is registered for the value of a node that has no
\* SetLogFields, that func is the one invoked for the node, also when another
\* func is registered for the node's type.
C9_ValueFuncWins ==
    WalkDone =>
        \A i \in 1..Len(calls) :
            LET n == NodeAt(arg, calls[i].pos) IN
            ( /\ ~ImplementsSetLogFields(TypeOf(n))
              /\ Hashable(n)
              /\ ValueKey(n) \in DOMAIN registeredErrorLogFunctions ) =>
                calls[i].by = registeredErrorLogFunctions[ValueKey(n)]

\* Whether the registration loop can store the identity.
Storable(errItem) == IsNilPtr(errItem) \/ Hashable(errItem)

KeyOf(errItem) ==
    IF IsNilPtr(errItem) THEN TypeKey(TypeOf(errItem)) ELSE ValueKey(errItem)

\* C10: a registration call never panics; an identity whose dynamic type is
\* not comparable is skipped and every other identity of the call is stored.
C10_NonComparableSkipped ==
    /\ op = "RegisterErrorLogFunc" =>
          /\ outcome = "ok"
          /\ \A i \in 1..Len(errList) :
                Storable(errList[i]) =>
                    KeyOf(errList[i]) \in DOMAIN registeredErrorLogFunctions
    /\ op = "InhibitStacktraceForError" =>
          /\ outcome = "ok"
          /\ \A i \in 1..Len(errList) :
                Storable(errList[i]) =>
                    KeyOf(errList[i]) \in inhibitStacktraceForError
\* The func stored under the type key of t, "none" when there is none.
MarkerFunc(t) ==
    IF TypeKey(t) \in DOMAIN registeredErrorLogFunctions
    THEN registeredErrorLogFunctions[TypeKey(t)]
    ELSE "none"

\* The func h is stored under the type key of t and under no other key.
OnlyMarker(h, t) ==
    \A k \in DOMAIN registeredErrorLogFunctions :
        registeredErrorLogFunctions[k] = h <=> k = TypeKey(t)

\* Position i of the chain was visited and `by` was invoked there.
Invoked(i, by) ==
    \E j \in 1..Len(calls) : calls[j].pos = i /\ calls[j].by = by

\* C11 as stated: a func registered through the marker (*T)(nil) is invoked by
\* the walk for every node of the chain whose dynamic type is *T, and is not
\* invoked for a node whose dynamic type is the struct T.
C11_MarkerFuncForEveryPointerNode ==
    WalkDone =>
        \A i \in 1..Len(arg) :
            LET t == arg[i].typ IN
            /\ (IsPtrType(t) /\ MarkerFunc(t) # "none") => Invoked(i, MarkerFunc(t))
            /\ (~IsPtrType(t) /\ MarkerFunc(PtrTo(t)) # "none"
                  /\ OnlyMarker(MarkerFunc(PtrTo(t)), PtrTo(t))) =>
                    ~Invoked(i, MarkerFunc(PtrTo(t)))

\* C11 as amended: a func registered through the marker (*T)(nil) is invoked
\* by the walk for every node of the chain whose dynamic type is *T and has no
\* SetLogFields method, also when T is not comparable, and is not invoked for
\* a node whose dynamic type is the struct T.
C11_MarkerFuncByExactType ==
    WalkDone =>
        \A i \in 1..Len(arg) :
            LET t == arg[i].typ IN
            /\ (IsPtrType(t) /\ ~ImplementsSetLogFields(t) /\ MarkerFunc(t) # "none") =>
                    Invoked(i, MarkerFunc(t))
            /\ (~IsPtrType(t) /\ MarkerFunc(PtrTo(t)) # "none"
                  /\ OnlyMarker(MarkerFunc(PtrTo(t)), PtrTo(t))) =>
                    ~Invoked(i, MarkerFunc(PtrTo(t)))

\* With funcs registered for (*testErr)(nil) and (*nonComparableError)(nil),
\* the walk of &testErr{e: nonComparableError{...}} invoked the first func for
\* the pointer and nothing for the struct value.
C11_Witness ==
    /\ op = "UnwrapError"
    /\ arg = TestErrPtrOf(NonComparableErr)
    /\ MarkerFunc(TestErrPtrT) # "none"
    /\ MarkerFunc(NonComparablePtrT) # "none"
    /\ outcome = "ok"
    /\ Invoked(1, MarkerFunc(TestErrPtrT))
    /\ Invoked(2, "none")
\* The positions of the chain e that hold an HTTPError.
HTTPErrorPositions(e) == {i \in 1..Len(e) : e[i].typ = HTTPErrorT}

\* The largest element of a non-empty set of numbers.
MaxOf(S) == CHOOSE x \in S : \A y \in S : y <= x

\* C12: GetInnerHTTPError returns the innermost HTTPError of the chain, the
\* one closest to the root cause, whatever wrappers separate the HTTPErrors,
\* and nil when the chain holds no HTTPError.
C12_InnermostHTTPError ==
    op = "GetInnerHTTPError" =>
        IF HTTPErrorPositions(arg) = {}
        THEN inner = Nil
        ELSE inner = NodeAt(arg, MaxOf(HTTPErrorPositions(arg)))

\* The chain was a 500 HTTPError around an ErrorStackTrace around a 400
\* HTTPError, and the 400 one was returned.
C12_Witness ==
    /\ op = "GetInnerHTTPError"
    /\ Len(arg) = 3
    /\ arg[1].typ = HTTPErrorT /\ arg[1].aux = StatusInternalServerError
    /\ arg[2].typ = ErrorStackTraceT
    /\ arg[3].typ = HTTPErrorT /\ arg[3].aux = StatusBadRequest
    /\ inner = NodeAt(arg, 3)

\* C13: after Entry.WithError of a non-nil error, error_type is the type name
\* of the terminal node of the chain, whatever wraps it.
C13_TypeOfTerminalNode ==
    (op = "WithError" /\ arg # Nil) =>
        /\ errorType \in DOMAIN fields
        /\ fields[errorType] = << arg[Len(arg)].typ >>

\* WithError of a sentinel wrapped by Trace and by an HTTPError recorded the
\* sentinel's type, which is not the type of the head.
C13_Witness ==
    /\ op = "WithError"
    /\ outcome = "ok"
    /\ Len(arg) = 3
    /\ arg[1].typ = HTTPErrorT
    /\ arg[2].typ = ErrorStackTraceT
    /\ fields[errorType] = << TestErrorPtrT >>
\* The middleware of request r has run to its end or has panicked.
Ended(r) == pc[r] \in {"done", "panic"}

\* C14: Entry.WithFields copies every key of the map that does not start with
\* "_" and no key that does; the record of the middleware holds no such key,
\* and a "_msg" of the request's field map is the message of the record.
C14_UnderscoreKeysNotCopied ==
    /\ op = "WithFields" =>
          /\ DOMAIN fields = {k \in DOMAIN fieldsIn : k \notin {"_msg", "_debug"}}
          /\ \A k \in DOMAIN fields : fields[k] = fieldsIn[k]
    /\ \A r \in Requests : \A i \in 1..Len(records[r]) :
          /\ "_msg" \notin DOMAIN records[r][i].data
          /\ "_msg" \in DOMAIN ctx[r].f => records[r][i].msg = ctx[r].f["_msg"]
          /\ "_msg" \notin DOMAIN ctx[r].f => records[r][i].msg = << "access" >>

\* The handler set "_msg" and "user-id"; the record has the message of the
\* directive, the field user-id and no field "_msg".
C14_Witness ==
    /\ pc[1] = "done"
    /\ "_msg" \in DOMAIN ctx[1].f
    /\ Len(records[1]) = 1
    /\ records[1][1].msg = << "msg", "1" >>
    /\ "user-id" \in DOMAIN records[1][1].data
    /\ "_msg" \notin DOMAIN records[1][1].data

\* C15: for a non-nil error returned by the handler the middleware hands to
\* c.Error the innermost HTTPError of the chain, or, when the chain holds no
\* HTTPError, a new HTTPError of status 500 whose Internal is that error.
C15_ReportsInnermostOrNew500 ==
    \A r \in Requests :
        (Ended(r) /\ returned[r] # Nil) =>
            reported[r] =
                << IF HTTPErrorPositions(returned[r]) # {}
                   THEN NodeAt(returned[r], MaxOf(HTTPErrorPositions(returned[r])))
                   ELSE << MkNode(HTTPErrorT, 0, StatusInternalServerError, FALSE) >>
                          \o returned[r] >>

\* One request returned a 500 HTTPError around a traced 400 HTTPError and the
\* 400 one was reported; the other returned a sentinel and a new 500 around
\* it was reported.
C15_Witness ==
    /\ pc[1] = "done" /\ pc[2] = "done"
    /\ Len(returned[1]) = 3
    /\ reported[1] = << NewHTTPError(Nil, StatusBadRequest) >>
    /\ returned[2] = Sentinel(1)
    /\ reported[2] = << NewHTTPError(Sentinel(1), StatusInternalServerError) >>

\* C16: an error returned by the handler whose chain holds no HTTPError is
\* handed to c.Error as it is.
C16_PassedOnUnmodified ==
    \A r \in Requests :
        (Ended(r) /\ returned[r] # Nil /\ HTTPErrorPositions(returned[r]) = {}) =>
            reported[r] = << returned[r] >>

\* C17: the middleware writes exactly one record for every request, and
\* none before the handler has returned.
C17_OneRecordPerRequest ==
    \A r \in Requests :
        /\ ~Ended(r) => records[r] = << >>
        /\ Ended(r) => Len(records[r]) = 1
\* The keys Entry.WithError writes for the error the handler of r returned.
WalkKeys(r) ==
    IF returned[r] = Nil THEN {}
    ELSE DOMAIN WithError(LoggedError(returned[r]), NoFields,
                          registeredErrorLogFunctions).fields

\* C18: every field the handler of a request added with AddContextFields is
\* in the record the middleware writes for that request, with the value the
\* handler gave it, unless its key starts with "_" or is written afterwards
\* by the middleware (latency_ms, status) or by the walk of the error; and no
\* field added to another request's context is in the record.
C18_AddedFieldsLogged ==
    \A r \in Requests : \A i \in 1..Len(records[r]) :
        LET data == records[r][i].data IN
        /\ \A k \in DOMAIN added[r] :
              (k \notin {"_msg", "_debug", "latency_ms", "status"} /\ k \notin WalkKeys(r)) =>
                  (k \in DOMAIN data /\ data[k] = added[r][k])
        /\ \A q \in Requests \ {r} : \A k \in DOMAIN added[q] :
              ~(k \in DOMAIN data /\ data[k] = added[q][k])

\* Two requests ran side by side, each handler added user-id, and each
\* record holds the user-id of its own request.
C18_Witness ==
    /\ pc[1] = "done" /\ pc[2] = "done"
    /\ "user-id" \in DOMAIN added[1] /\ "user-id" \in DOMAIN added[2]
    /\ records[1][1].data["user-id"] = << "user", "1" >>
    /\ records[2][1].data["user-id"] = << "user", "2" >>

\* C19: Entry.WithCtx(c) adds to the entry every field of the map the
\* middleware stored in the context whose key does not start with "_", and
\* leaves the entry as it was for a nil context or a context without the map.
C19_WithCtxAddsContextFields ==
    op = "WithCtx" =>
        IF ctxArg.c = "nil" \/ ctxArg.val.typ = "nil"
        THEN fields = fieldsIn
        ELSE \A k \in DOMAIN ctxArg.val.f :
                k \notin {"_msg", "_debug"} =>
                    (k \in DOMAIN fields /\ fields[k] = ctxArg.val.f[k])

\* The record of request r, when the middleware has written it.
RecordOf(r) == records[r][1]

\* C20 as stated: when the record is written, its request_id, the request's
\* X-Request-Id header and the response's X-Request-Id header all hold the
\* same identifier, the one the request arrived with if it had one.
C20_SameIdEverywhere ==
    \A r \in Requests :
        Len(records[r]) = 1 =>
            /\ inbound[r] # << >> => RecordOf(r).data["request_id"] = inbound[r]
            /\ RecordOf(r).data["request_id"] = reqHeader[r]
            /\ resHeader[r] = reqHeader[r]

\* C20 as amended: the request_id of the record and the request's
\* X-Request-Id header hold the same identifier, the one the request arrived
\* with if it had one; the response's X-Request-Id header holds it when the
\* identifier was generated and is left as it was otherwise.
C20_IdInRecordAndRequest ==
    \A r \in Requests :
        Len(records[r]) = 1 =>
            /\ RecordOf(r).data["request_id"] = reqHeader[r]
            /\ reqHeader[r] # << >>
            /\ IF inbound[r] # << >>
               THEN reqHeader[r] = inbound[r] /\ resHeader[r] = << >>
               ELSE resHeader[r] = reqHeader[r]

\* One request arrived with an identifier and one without; both records are
\* written, the first holds the client's identifier and the second the
\* generated one, which is also in its response header.
C20_Witness ==
    /\ pc[1] = "done" /\ pc[2] = "done"
    /\ inbound[1] = << "client-id" >>
    /\ RecordOf(1).data["request_id"] = << "client-id" >>
    /\ inbound[2] = << >>
    /\ RecordOf(2).data["request_id"] = resHeader[2]
    /\ resHeader[2] # << >>
\* The field maps SetLogFields is tried on: empty, holding another key, and
\* holding an error_stack already.
C21_Maps == FieldMaps \cup {Put(Put(NoFields, "request_id", << "r1" >>),
                                errorStack, << "older" >>)}

\* Trace returned a new ErrorStackTrace around its argument.
TraceCreated ==
    /\ op = "Trace" /\ outcome = "ok"
    /\ arg # Nil /\ err # Nil /\ err # arg

\* C21: an ErrorStackTrace t returned by Trace(e) is transparent.  Its
\* message is the message of e, its Unwrap is e, its TypeName is the type of
\* e, its Stack is the non-empty stack of the call that made it, and its
\* SetLogFields writes that stack under error_stack and no other key; the
\* stack of the chain stays the same in every later step.
C21_StackTraceTransparent ==
    /\ [](TraceCreated =>
            /\ TypeOf(err) = ErrorStackTraceT
            /\ ErrorMsg(err) = ErrorMsg(arg)
            /\ Unwrap(err) = arg
            /\ TypeName(err) = arg[1].typ
            /\ Stack(err) = << "stack", ToString(site) >>
            /\ \A f \in C21_Maps :
                  LET g == SetLogFields(err, f) IN
                  /\ DOMAIN g = (DOMAIN f) \cup {errorStack}
                  /\ g[errorStack] = Stack(err)
                  /\ \A k \in (DOMAIN f) \ {errorStack} : g[k] = f[k])
    /\ [][(HasStackTrace(err) /\ op' \in {"wrap", "Trace", "UnwrapError", "WithError"})
            => (/\ HasStackTrace(err')
                /\ Stack(GetErrorStackTrace(err')) = Stack(GetErrorStackTrace(err)))]_vars

\* Trace wrapped an error that fmt.Errorf had wrapped: the new node is at
\* the head, and its message is the one of the fmt wrapper.
C21_Witness ==
    /\ TraceCreated
    /\ TypeOf(err) = ErrorStackTraceT
    /\ TypeOf(arg) = WrapErrorT
    /\ ErrorMsg(err) = << "wrapped:", "test error", "1" >>
    /\ Stack(err) = StackText(site)
\* C22: the request metadata is merged into the entry after the walk of the
\* error, so that on a key both the walk and the metadata set the record of a
\* failed request holds the value of the metadata.
C22_MetadataWrittenLast ==
    \A r \in Requests : \A i \in 1..Len(records[r]) :
        returned[r] # Nil =>
            \A k \in DOMAIN ctx[r].f :
                k \notin {"_msg", "_debug"} =>
                    (k \in DOMAIN records[r][i].data
                        /\ records[r][i].data[k] = ctx[r].f[k])
\* A step of the handling of request r: the middleware or the handler moves.
HandlesRequest(r) == pc'[r] # pc[r] \/ ctx'[r] # ctx[r]

\* What belongs to request r alone.
OwnState(r) == << pc[r], reqHeader[r], resHeader[r], ctx[r], returned[r],
                 reported[r], records[r], inbound[r], added[r] >>

\* C23: the handling of a request writes only what belongs to that request:
\* its own field map, headers, error chain and record.  It writes nothing
\* that another request can see: not the registry, not the inhibit set, and
\* no other variable that the requests share, and nothing of another request.
C23_RequestHandlingWritesNoSharedState ==
    [][\A r \in Requests :
          HandlesRequest(r) =>
              /\ UNCHANGED << registeredErrorLogFunctions,
                              inhibitStacktraceForError, LogCallStackDirectly,
                              logFunctions >>
              /\ \A q \in Requests \ {r} : UNCHANGED OwnState(q)]_vars

\* The part of C23 that the code keeps: a step of one request leaves what
\* belongs to the other requests, and both tables, as they were.
C23_OwnStateAndTablesKept ==
    [][\A r \in Requests :
          HandlesRequest(r) =>
              /\ UNCHANGED tables
              /\ \A q \in Requests \ {r} : UNCHANGED OwnState(q)]_vars

\* The race has an outcome that serves no request: a request that read the
\* half-written slice header panicked before it made its field map.
C23_TornReadReached ==
    \E r \in Requests : pc[r] = "panic" /\ ctx[r] = NoContextValue
\* The standalone records of the last call that carry an error message.
DirectRecords ==
    { i \in 1..Len(emitted) : errorMessage \in DOMAIN emitted[i].data }

\* C24: when LogCallStackDirectly is true, a Trace that creates a new
\* ErrorStackTrace emits exactly one record, at error level, with the message
\* of its argument under error_message and the captured stack under
\* error_stack.  A Trace that returns its argument unchanged, or one that runs
\* while the flag is false, emits no record with an error message.
C24_DirectLogOncePerCapture ==
    (op = "Trace" /\ outcome = "ok") =>
        IF TraceCreated /\ LogCallStackDirectly
        THEN emitted = << LogRecord("error", "ERROR",
                            Put(Put(NoFields, errorMessage, ErrorMsg(arg)),
                                errorStack, Stack(err))) >>
        ELSE DirectRecords = {}

\* With the flag set, Trace captured the stack of an error and logged it.
C24_Witness ==
    /\ TraceCreated /\ LogCallStackDirectly
    /\ Len(emitted) = 1
    /\ emitted[1].data[errorStack] = << "stack", ToString(site) >>

\* With the flag set, Trace was handed a chain that already had its stack,
\* and returned it without a record.
C24_WitnessUnchanged ==
    /\ op = "Trace" /\ outcome = "ok" /\ LogCallStackDirectly
    /\ arg # Nil /\ err = arg /\ HasStackTrace(arg)
    /\ emitted = << >>
\* What the contributor `by` writes for the node at the head of e.
Writes(by, e) == Contribute(by, e, NoFields)

\* The visits of the last walk whose contributor wrote the key k.
Writers(k) ==
    { j \in 1..Len(calls) : k \in DOMAIN Writes(calls[j].by, NodeAt(arg, calls[j].pos)) }

\* C25: the merge of UnwrapError is last-write-wins in walk order.  A key
\* that several nodes write holds the value of the writer nearest the root;
\* error_message holds the message of the head only when no contributor wrote
\* it; a key nobody wrote holds the value of the map handed in.
C25_LastWriteWins ==
    (op = "UnwrapError" /\ outcome = "ok" /\ arg # Nil) =>
        \A k \in DOMAIN fields :
            IF Writers(k) # {}
            THEN LET j == MaxOf(Writers(k)) IN
                 fields[k] = Writes(calls[j].by, NodeAt(arg, calls[j].pos))[k]
            ELSE IF k = errorMessage THEN fields[k] = ErrorMsg(arg)
            ELSE k \in DOMAIN fieldsIn /\ fields[k] = fieldsIn[k]

\* Two nodes of different types wrote "h1" and the node nearer the root won,
\* and a contributor wrote error_message over the message of the head.
C25_Witness ==
    /\ op = "UnwrapError" /\ outcome = "ok" /\ arg # Nil
    /\ Cardinality(Writers("h1")) >= 2
    /\ fields["h1"] # << TypeOf(arg) >>
    /\ fieldsIn # NoFields

\* A contributor wrote error_message: the record does not hold the message
\* of the head.
C25_WitnessMessage ==
    /\ op = "UnwrapError" /\ outcome = "ok" /\ arg # Nil
    /\ Writers(errorMessage) # {}
    /\ fields[errorMessage] # ErrorMsg(arg)
\* The positions of the ErrorStackTrace nodes of the chain e.
StackTracePositions(e) == { i \in 1..Len(e) : e[i].typ = ErrorStackTraceT }

\* C26: a chain that started without an ErrorStackTrace and went through
\* Trace calls and wrappings holds at most one ErrorStackTrace; once a Trace
\* has created one, every later wrapping and Trace leaves that node, with the
\* stack and the chain below it, as the only one.
C26_SingleCapture ==
    /\ [](Cardinality(StackTracePositions(err)) <= 1)
    /\ [][(HasStackTrace(err) /\ op' \in {"wrap", "Trace"} /\ outcome' = "ok")
            => GetErrorStackTrace(err') = GetErrorStackTrace(err)]_vars

\* A traced error was wrapped and handed to Trace at another call site: the
\* chain still has the one ErrorStackTrace, below the wrapper, with the stack
\* of the first call.
C26_Witness ==
    /\ op = "Trace" /\ outcome = "ok" /\ arg # Nil /\ err = arg
    /\ TypeOf(err) \in {WrapErrorT, HTTPErrorT}
    /\ StackTracePositions(err) = {2}
    /\ err[2].aux # site
\* C27: the record of a request is at error level if and only if its handler
\* returned a non-nil error, and at info level otherwise, whatever fields the
\* request metadata and AddContextFields put into the field map.
C27_ErrorLevelIffHandlerError ==
    \A r \in Requests : \A i \in 1..Len(records[r]) :
        /\ records[r][i].level \in {"error", "info"}
        /\ records[r][i].level = "error" <=> returned[r] # Nil

\* The half of C27 that the code keeps: the record of a request whose handler
\* returned an error is at error level.
C27_HandlerErrorAtErrorLevel ==
    \A r \in Requests : \A i \in 1..Len(records[r]) :
        returned[r] # Nil => records[r][i].level = "error"

\* The level of a record is decided by the key error_message alone.
C27_LevelByErrorMessageKey ==
    \A r \in Requests : \A i \in 1..Len(records[r]) :
        records[r][i].level = "error" <=> errorMessage \in DOMAIN records[r][i].data
\* C28: Trace never panics.  For every non-nil error that is not a nil
\* pointer, one of a non-comparable dynamic type included, Trace returns, and
\* what it returns is its argument or a new ErrorStackTrace around it.
C28_TraceNeverPanics ==
    (op = "Trace" /\ arg # Nil /\ ~IsNilPtr(arg)) =>
        /\ outcome = "ok"
        /\ \/ err = arg
           \/ (TypeOf(err) = ErrorStackTraceT /\ Unwrap(err) = arg)

\* What the code keeps of C28: Trace panics for no error that the runtime can
\* hash, and then returns its argument or a new ErrorStackTrace around it.
C28_HashableNeverPanics ==
    (op = "Trace" /\ arg # Nil /\ ~IsNilPtr(arg) /\ Hashable(arg)) =>
        /\ outcome = "ok"
        /\ \/ err = arg
           \/ (TypeOf(err) = ErrorStackTraceT /\ Unwrap(err) = arg)
\* The chain b is a proper rest of the chain a.
ProperRest(b, a) == Len(b) < Len(a) /\ b = SubSeq(a, Len(a) - Len(b) + 1, Len(a))

\* C29: each chain-following loop ends: the loop of UnwrapError, the search
\* of the root cause in WithError and the loop of GetInnerHTTPError run their
\* body at most as many times as the chain has nodes, every body leaves the
\* loop variable on a proper rest of the chain it had, and a loop that
\* started is left, with the result of the function it belongs to.
C29_LoopsTerminate ==
    /\ [](loop.rounds <= Len(loop.start))
    /\ [][(loop.active /\ loop' # loop /\ loop'.outcome = "ok")
            => ProperRest(loop'.e, loop.e)]_vars
    /\ [](~loop.active /\ loop.outcome = "ok" =>
            /\ loop.kind = "UnwrapError" => loop.e = Nil
            /\ (loop.kind = "WithError" /\ loop.start # Nil) =>
                    loop.e = << loop.start[Len(loop.start)] >>
            /\ loop.kind = "GetInnerHTTPError" =>
                    loop.errMsg = GetInnerHTTPError(loop.start))
    /\ (loop.active ~> ~loop.active)

\* GetInnerHTTPError was called with an HTTPError around an HTTPError around
\* a root cause: its loop ran three bodies and ended on the inner one.
C29_Witness ==
    /\ loop.kind = "GetInnerHTTPError" /\ ~loop.active
    /\ Len(loop.start) = 3 /\ loop.rounds = 3
    /\ loop.errMsg = SubSeq(loop.start, 2, 3)
\* C30: the registry changes only in a call of RegisterErrorLogFunc (or of
\* InitDefaultErrorLogging, which calls it) and the inhibit set only in a
\* call of InhibitStacktraceForError; Trace, UnwrapError, WithError,
\* GetInnerHTTPError and the steps of the middleware leave both as they were.
C30_OnlyRegistrationWritesTables ==
    [][/\ registeredErrorLogFunctions' # registeredErrorLogFunctions
            => op' = "RegisterErrorLogFunc"
       /\ inhibitStacktraceForError' # inhibitStacktraceForError
            => op' = "InhibitStacktraceForError"
       /\ (\/ op' \in {"Trace", "UnwrapError", "WithError", "GetInnerHTTPError"}
           \/ \E r \in Requests : HandlesRequest(r))
            => UNCHANGED tables]_vars

\* After the registrations a request was served and Trace returned an error
\* unchanged: both tables are filled, and the walk of the request used the
\* registry.
C30_Witness ==
    /\ op = "Trace" /\ outcome = "ok" /\ arg # Nil /\ err = arg
    /\ inhibitStacktraceForError # {}
    /\ DOMAIN registeredErrorLogFunctions # {}
    /\ pc[1] = "done" /\ returned[1] # Nil
    /\ "h1" \in DOMAIN records[1][1].data
====
